---- MODULE Spec2Model ----
(***************************************************************************)
(* A model of the price aggregator: the Flask endpoint search_all_platforms *)
(* (src/aggregator_api.py), its five backend adapters and the JioMart       *)
(* filter builder (src/jiomart.py).                                         *)
(*                                                                          *)
(* Python values are written as string tokens, so that every field of a    *)
(* record has one TLA+ type:                                                *)
(*   "None"      Python None (a JSON null, or a key dict.get() misses)      *)
(*   "MISSING"   a key that is not in a dict that is passed through         *)
(*   "s:<text>"  a str      "n:<num>"  a JSON number     "b:true" a bool    *)
(*   "l:[]"      a list     "f:<num>"  a Python float made by float()       *)
(***************************************************************************)
EXTENDS Integers, Sequences, FiniteSets, TLC

VARIABLES
    f_pc, f_key, f_values, f_result,        \* one call of build_algolia_or_filter
    p_pc, p_backend, p_pincode, p_body, p_out,  \* one call of a 9minutes adapter
    \* one call of search_dmart_products: where it is, its pincode, the upstream
    \* body, dmart_results, the parent record and the SKU of the current loop
    \* rounds, how many records the body may still hold, and dmart_results as
    \* it was before the current SKU
    d_pc, d_pincode, d_body, d_results, d_parent, d_sku, d_left, d_before,
    \* one call of search_jiomart_products: where it is, the mapping response,
    \* location_data, the orders in which the two code sets are iterated,
    \* final_filters, the search-index response, jiomart_results, the hit of the
    \* current loop round, how many hits the body may still hold, jiomart_results
    \* as it was before the current hit, and the requests made so far
    j_pc, j_mapping, j_location, j_region_order, j_store_order, j_filters, j_body,
    j_results, j_hit, j_left, j_before, j_calls,
    \* one request to /search_all: where search_all_platforms is, its two
    \* arguments, the index of the next adapter to submit or to collect, the
    \* five futures, the results dict and the response
    pc, query, pincode, next, futures, results, response,
    \* the file jiomart_mapping_response.json in the working directory of the
    \* server process
    mapping_response_file

fvars == <<f_pc, f_key, f_values, f_result>>
pvars == <<p_pc, p_backend, p_pincode, p_body, p_out>>
dvars == <<d_pc, d_pincode, d_body, d_results, d_parent, d_sku, d_left, d_before>>
jvars == <<j_pc, j_mapping, j_location, j_region_order, j_store_order, j_filters, j_body,
           j_results, j_hit, j_left, j_before, j_calls>>
mvars == <<pc, query, pincode, next, futures, results, response>>
vars == <<fvars, pvars, dvars, jvars, mvars, mapping_response_file>>

-----------------------------------------------------------------------------
(* Python values *)

None == "None"
MISSING == "MISSING"

\* bool(x): the values Python treats as false.
Truthy(t) == t \notin {"None", "MISSING", "s:", "n:0", "b:false", "l:[]"}

IsStr(t) == t \in {"s:", "s:abc", "s:12.50", "s:30", "s:true", "s:false", "s:OOS",
                   "s:A", "s:Milk", "s:Curd", "s:/milk", "s:B1", "s:img", "s:1kg",
                   "s:https://www.dmart.in/milk", "s:https://www.jiomart.com",
                   "s:https://www.jiomart.com/milk", "s:4901",
                   "s:https://cdn.dmart.in/images/products/img_img_P.jpg",
                   "s:https://www.jiomart.com/images/product/original/img?im=Resize=(150,150)"}

\* float(x): the float, or the exception float() raises.
FloatOf(t) ==
    CASE t = "s:12.50" -> [exc |-> "none", val |-> "f:12.5"]
      [] t = "s:30"    -> [exc |-> "none", val |-> "f:30.0"]
      [] t = "n:0"     -> [exc |-> "none", val |-> "f:0.0"]
      [] t = "n:7"     -> [exc |-> "none", val |-> "f:7.0"]
      [] t = "b:true"  -> [exc |-> "none", val |-> "f:1.0"]
      [] t \in {"None", "MISSING", "l:[]"} -> [exc |-> "TypeError", val |-> None]
      [] OTHER         -> [exc |-> "ValueError", val |-> None]

\* The sequences over S of length at most n.
RECURSIVE SeqsUpTo(_, _)
SeqsUpTo(S, n) ==
    IF n = 0 THEN {<<>>}
    ELSE LET shorter == SeqsUpTo(S, n - 1)
         IN shorter \cup {Append(s, x) : s \in {t \in shorter : Len(t) = n - 1}, x \in S}

Range(s) == {s[i] : i \in 1..Len(s)}

\* Every order a Python set may be iterated in: the sequences that list each
\* element of S once.
Orders(S) == {o \in [1..Cardinality(S) -> S] : Range(o) = S}

-----------------------------------------------------------------------------
(* Pincodes.  A str is the sequence of its characters; "U+0663" is ARABIC-  *)
(* INDIC DIGIT THREE, a character str.isdigit() accepts that is not 0-9.    *)

AsciiDigits == {"0", "1", "2", "3", "4", "5", "6", "7", "8", "9"}
UnicodeDigits == {"U+0663"}

P500032 == <<"5", "0", "0", "0", "3", "2">>
P500049 == <<"5", "0", "0", "0", "4", "9">>
P400076 == <<"4", "0", "0", "0", "7", "6">>
P110001 == <<"1", "1", "0", "0", "0", "1">>
PArabic == <<"U+0663", "U+0663", "U+0663", "U+0663", "U+0663", "U+0663">>

\* str.isdigit(): a non-empty string of digit characters.
IsDigit(s) == Len(s) > 0 /\ \A i \in 1..Len(s) : s[i] \in AsciiDigits \cup UnicodeDigits

\* get_9minutes_location_string(pincode)
get_9minutes_location_string(pin) ==
    IF pin = P500032 THEN "s:500032_gachibowli_circle_hyd" ELSE None

\* get_dmart_store_id(pincode)
get_dmart_store_id(pin) ==
    IF pin = P500049 \/ pin = P500032 THEN "s:10733"
    ELSE IF pin = P400076 THEN "s:10011"
    ELSE None

-----------------------------------------------------------------------------
(* Canonical products, and what an adapter call ends in. *)

Product(name, mrp, selling_price, image, variant, barcode, deeplink) ==
    [name |-> name, mrp |-> mrp, selling_price |-> selling_price, image |-> image,
     variant |-> variant, barcode |-> barcode, deeplink |-> deeplink]

Returned(list) == [raised |-> FALSE, exc |-> "none", value |-> list]
Raised(exc) == [raised |-> TRUE, exc |-> exc, value |-> <<>>]

-----------------------------------------------------------------------------
(* The three adapters that read https://9minutes.in/api/fetch_products,     *)
(* src/aggregator_api.py:140-224.                                           *)

MaxItems == 2
ProxyBackends == {"instamart", "zepto", "blinkit"}

\* An element of an upstream array: a JSON object with these keys, or a value
\* of another shape (its fields then mean nothing).
Item(shape, mrp, selling_price, barcode, deeplink) ==
    [shape |-> shape, name |-> "s:Milk", mrp |-> mrp, selling_price |-> selling_price,
     image |-> "s:img", variant |-> "s:1kg", barcode |-> barcode, deeplink |-> deeplink]

GoodItem == Item("dict", "n:7", "n:7", "s:B1", "s:/milk")
ProxyItems ==
    { GoodItem,
      Item("dict", "s:12.50", "s:30", "s:B1", "s:/milk"),
      Item("dict", None, MISSING, "s:B1", "s:/milk"),
      Item("dict", "s:abc", "n:7", "s:B1", "s:/milk"),
      Item("dict", "n:7", "s:abc", "s:B1", "s:/milk"),
      Item("dict", "l:[]", "n:7", "s:B1", "s:/milk"),
      Item("dict", "n:7", "n:7", None, "s:/milk"),
      Item("dict", "n:7", "n:7", "s:", MISSING),
      Item("s:abc", None, None, None, None),
      Item("None", None, None, None, None) }

\* What requests.get(...), raise_for_status() and response.json() end in:
\* kind is the outcome of the round trip; for kind "json", shape is the shape
\* of the decoded body, and for a JSON object `array` is the value under the
\* adapter's own key: shape "list" with its items, or a value of another shape.
Body(kind, shape, arrayShape, items) ==
    [kind |-> kind, shape |-> shape, array |-> [shape |-> arrayShape, items |-> items]]

ProxyBodies ==
    { Body(k, "None", "MISSING", <<>>) : k \in {"network_error", "http_error", "not_json"} }
    \cup { Body("json", sh, "MISSING", <<>>) : sh \in {"None", "dict_empty", "list_empty", "list", "s:abc"} }
    \cup { Body("json", "dict", sh, <<>>) : sh \in {"MISSING", "None", "s:abc", "dict"} }
    \cup { Body("json", "dict", "list", items) : items \in SeqsUpTo(ProxyItems, MaxItems) }

\* call_9minutes_api(query, pincode): the decoded body, or None.
call_9minutes_api(pin, body) ==
    IF ~Truthy(get_9minutes_location_string(pin)) THEN [called |-> FALSE, data |-> None]
    ELSE IF body.kind = "json" THEN [called |-> TRUE, data |-> body.shape]
    ELSE [called |-> TRUE, data |-> None]

\* bool(data) for a decoded body.
DataTruthy(shape) == shape \in {"dict", "list", "s:abc"}

\* The exception one round of the coercion loop raises on `item`, or "none":
\*   item['mrp'] = float(item['mrp']) if item.get('mrp') is not None else None
\*   item['selling_price'] = ... likewise
CoerceExc(item) ==
    IF item.shape # "dict" THEN "AttributeError"
    ELSE IF item.mrp \notin {None, MISSING} /\ FloatOf(item.mrp).exc # "none"
         THEN FloatOf(item.mrp).exc
    ELSE IF item.selling_price \notin {None, MISSING} /\ FloatOf(item.selling_price).exc # "none"
         THEN FloatOf(item.selling_price).exc
    ELSE "none"

CoercePrice(t) == IF t \in {None, MISSING} THEN None ELSE FloatOf(t).val

\* The item after the loop body: the two prices replaced, all else as it came.
Coerced(item) ==
    Product(item.name, CoercePrice(item.mrp), CoercePrice(item.selling_price),
            item.image, item.variant, item.barcode, item.deeplink)

\* for item in results: ...; return results
RECURSIVE CoerceAll(_)
CoerceAll(items) ==
    IF Len(items) = 0 THEN Returned(<<>>)
    ELSE IF CoerceExc(Head(items)) # "none" THEN Raised(CoerceExc(Head(items)))
    ELSE LET rest == CoerceAll(Tail(items))
         IN IF rest.raised THEN rest
            ELSE Returned(<<Coerced(Head(items))>> \o rest.value)

\* A faulty variant, for comparison: the adapter goes on to the request without a location string.
search_9minutes_products_anywhere(pin, body) ==
    LET data == IF body.kind = "json" THEN body.shape ELSE None
    IN IF ~DataTruthy(data) THEN Returned(<<>>)
       ELSE IF data # "dict" THEN Raised("AttributeError")
       ELSE IF body.array.shape # "list" THEN Returned(<<>>)
       ELSE CoerceAll(body.array.items)

\* search_instamart_products / search_zepto_products / search_blinkit_products:
\* the three differ only in the key they read, which is body.array here.
search_9minutes_products(pin, body) ==
    LET data == call_9minutes_api(pin, body).data
    IN IF ~DataTruthy(data) THEN Returned(<<>>)
       ELSE IF data # "dict" THEN Raised("AttributeError")     \* data.get on a list or str
       ELSE IF body.array.shape # "list" THEN Returned(<<>>)
       ELSE CoerceAll(body.array.items)

ProxyInit ==
    /\ p_pc = "call"
    /\ p_backend \in ProxyBackends
    /\ p_pincode \in {P500032, P400076}
    /\ p_body \in ProxyBodies
    /\ p_out = Returned(<<>>)

ProxyIdle ==
    /\ p_pc = "off"
    /\ p_backend = "instamart"
    /\ p_pincode = P500032
    /\ p_body = Body("network_error", "None", "MISSING", <<>>)
    /\ p_out = Returned(<<>>)

\* One call of a 9minutes adapter.
CallProxyAdapter ==
    /\ p_pc = "call"
    /\ p_out' = search_9minutes_products(p_pincode, p_body)
    /\ p_pc' = "done"
    /\ UNCHANGED <<p_backend, p_pincode, p_body, fvars, dvars, jvars, mvars, mapping_response_file>>

ProxyNext == CallProxyAdapter

-----------------------------------------------------------------------------
(* build_algolia_or_filter, src/jiomart.py:18-26.  A string is the sequence *)
(* of the pieces an f-string or a join puts side by side.                   *)

MaxValues == 3
FilterKeys == {"available_stores", "k"}
FilterValues == {"a", "b", "c"}

\* f"{key_name}:{value}"
Clause(key_name, value) == <<key_name, ":", value>>

\* ' OR '.join(clauses)
RECURSIVE JoinOr(_)
JoinOr(clauses) ==
    IF Len(clauses) = 0 THEN <<>>
    ELSE IF Len(clauses) = 1 THEN clauses[1]
    ELSE clauses[1] \o <<" OR ">> \o JoinOr(Tail(clauses))

\* A faulty variant, for comparison: the values are not made unique before the clauses are built.
BuildFilterNoDedup(key_name, values, order) ==
    IF Len(values) = 0 THEN <<>>
    ELSE <<"(">> \o JoinOr([i \in 1..Len(values) |-> Clause(key_name, values[i])]) \o <<")">>

\* A faulty variant, for comparison: no values give "()" instead of the empty string.
BuildFilterNeverEmpty(key_name, values, order) ==
    <<"(">> \o JoinOr([i \in 1..Len(order) |-> Clause(key_name, order[i])]) \o <<")">>

\* build_algolia_or_filter(key_name, values), with `order` the order in which
\* set(values) is iterated.
BuildFilter(key_name, values, order) ==
    IF Len(values) = 0 THEN <<>>
    ELSE <<"(">> \o JoinOr([i \in 1..Len(order) |-> Clause(key_name, order[i])]) \o <<")">>

FilterInit ==
    /\ f_pc = "call"
    /\ f_key \in FilterKeys
    /\ f_values \in SeqsUpTo(FilterValues, MaxValues)
    /\ f_result = <<>>

FilterIdle ==
    /\ f_pc = "off"
    /\ f_key = "k"
    /\ f_values = <<>>
    /\ f_result = <<>>

\* One call of build_algolia_or_filter(f_key, f_values).
CallBuildFilter ==
    /\ f_pc = "call"
    /\ \E order \in Orders(Range(f_values)) :
          f_result' = BuildFilter(f_key, f_values, order)
    /\ f_pc' = "returned"
    /\ UNCHANGED <<f_key, f_values, pvars, dvars, jvars, mvars, mapping_response_file>>

FilterNext == CallBuildFilter

-----------------------------------------------------------------------------
(* search_dmart_products, src/aggregator_api.py:49-136.  The response is a  *)
(* list of parent records, each with a list of SKUs; the two loops take one *)
(* record per step.                                                         *)

\* The records (parent records and SKUs together) one response holds at most.
MaxRecords == 4

DMART_BASE_URL == "s:https://www.dmart.in"

\* A SKU: a JSON object with these keys, or a value of another shape.
Sku(shape, buyable, invType, priceMRP, priceSALE, articleNumber, productImageKey, imgCode, imageKey) ==
    [shape |-> shape, buyable |-> buyable, invType |-> invType, priceMRP |-> priceMRP,
     priceSALE |-> priceSALE, variantTextValue |-> "s:1kg", articleNumber |-> articleNumber,
     productImageKey |-> productImageKey, imgCode |-> imgCode, imageKey |-> imageKey]

GoodSku == Sku("dict", "s:true", "s:A", "s:12.50", "s:30", "s:B1", "s:img", "s:img", None)
NoSku == Sku("None", None, None, None, None, None, None, None, None)

\* Every combination of the fields the inclusion test reads, and a good SKU
\* with each of the other fields changed.
DmartSkus ==
    { Sku("dict", b, i, m, sp, "s:B1", "s:img", "s:img", None) :
          b \in {"s:true", "s:false", "b:true"}, i \in {"s:A", "s:OOS"},
          m \in {"s:12.50", "s:abc", "n:0", None}, sp \in {"s:30", "s:abc"} }
    \cup { Sku("dict", b, i, "s:12.50", "s:30", "s:B1", "s:img", "s:img", None) :
          b \in {"s:true", None}, i \in {"s:A", None} }
    \cup { Sku("dict", "s:true", "s:A", "s:12.50", sp, "s:B1", "s:img", "s:img", None) :
          sp \in {"n:0", None, "s:", "l:[]"} }
    \cup { Sku("dict", "s:true", "s:A", "s:12.50", "s:30", None, None, "s:img", f) :
          f \in {"s:img", None} }
    \cup { Sku("s:abc", None, None, None, None, None, None, None, None), NoSku }

\* A parent record: a JSON object whose sKUs is a list, is missing or has
\* another shape, or a value of another shape.
Parent(shape, name, targetUrl, skusShape, skus) ==
    [shape |-> shape, name |-> name, targetUrl |-> targetUrl, skusShape |-> skusShape,
     skus |-> skus]

NoParent == Parent("None", None, None, "MISSING", <<>>)
DmartParents ==
    { Parent("dict", "s:Milk", t, "list", <<>>) : t \in {"s:/milk", None} }
    \cup { Parent("dict", n, "s:/milk", "list", <<>>) : n \in {None, "s:"} }
    \cup { Parent("dict", "s:Milk", "s:/milk", sh, <<>>) : sh \in {"MISSING", "None"} }
    \cup { Parent("s:abc", None, None, "MISSING", <<>>) }

DmartBodies ==
    { Body(k, "None", "MISSING", <<>>) : k \in {"network_error", "http_error", "not_json"} }
    \cup { Body("json", sh, "MISSING", <<>>) : sh \in {"None", "dict_empty", "list", "s:abc"} }
    \cup { Body("json", "dict", sh, <<>>) : sh \in {"MISSING", "None", "s:abc", "list"} }

\* Whether the code reaches `for product_item in raw_product_list` with a list.
DmartReachesLoop(pin, body) ==
    /\ Truthy(get_dmart_store_id(pin))
    /\ body.kind = "json" /\ body.shape = "dict" /\ body.array.shape = "list"

\* The image URL of lines 88-102.
DmartImage(sku) ==
    IF Truthy(sku.productImageKey) /\ Truthy(sku.imgCode)
    THEN "s:https://cdn.dmart.in/images/products/img_img_P.jpg"
    ELSE IF Truthy(sku.imageKey) /\ Truthy(sku.imgCode)
    THEN "s:https://cdn.dmart.in/images/products/img_img_P.jpg"
    ELSE None

\* f"{DMART_BASE_URL}{target_url_path}" if target_url_path else None
DmartUrl(parent) ==
    IF Truthy(parent.targetUrl) THEN "s:https://www.dmart.in/milk" ELSE None

\* x or ""
OrEmpty(t) == IF Truthy(t) THEN t ELSE "s:"

\* A faulty variant, for comparison: the price test asks only that a price is not None.
DmartSkuStepNotNone(parent, sku) ==
    IF sku.shape # "dict" THEN [kind |-> "error", exc |-> "AttributeError", product |-> <<>>]
    ELSE IF sku.buyable # "s:true" \/ sku.invType = "s:OOS"
    THEN [kind |-> "skip", exc |-> "none", product |-> <<>>]
    ELSE IF ~(Truthy(parent.name) /\ sku.priceMRP # None /\ sku.priceSALE # None)
    THEN [kind |-> "skip", exc |-> "none", product |-> <<>>]
    ELSE IF FloatOf(sku.priceMRP).exc # "none"
    THEN [kind |-> "error", exc |-> FloatOf(sku.priceMRP).exc, product |-> <<>>]
    ELSE IF FloatOf(sku.priceSALE).exc # "none"
    THEN [kind |-> "error", exc |-> FloatOf(sku.priceSALE).exc, product |-> <<>>]
    ELSE [kind |-> "emit", exc |-> "none",
          product |-> <<Product(parent.name, FloatOf(sku.priceMRP).val,
                                FloatOf(sku.priceSALE).val, DmartImage(sku),
                                sku.variantTextValue, OrEmpty(sku.articleNumber),
                                OrEmpty(DmartUrl(parent)))>>]

\* One round of `for sku_item in skus` (lines 80-124): the SKU is skipped by a
\* continue, emitted, or raises inside the try and is skipped by a handler.
DmartSkuStep(parent, sku) ==
    IF sku.shape # "dict" THEN [kind |-> "error", exc |-> "AttributeError", product |-> <<>>]
    ELSE IF sku.buyable # "s:true" \/ sku.invType = "s:OOS"
    THEN [kind |-> "skip", exc |-> "none", product |-> <<>>]
    ELSE IF ~(Truthy(parent.name) /\ Truthy(sku.priceMRP) /\ Truthy(sku.priceSALE))
    THEN [kind |-> "skip", exc |-> "none", product |-> <<>>]
    ELSE IF FloatOf(sku.priceMRP).exc # "none"
    THEN [kind |-> "error", exc |-> FloatOf(sku.priceMRP).exc, product |-> <<>>]
    ELSE IF FloatOf(sku.priceSALE).exc # "none"
    THEN [kind |-> "error", exc |-> FloatOf(sku.priceSALE).exc, product |-> <<>>]
    ELSE [kind |-> "emit", exc |-> "none",
          product |-> <<Product(parent.name, FloatOf(sku.priceMRP).val,
                                FloatOf(sku.priceSALE).val, DmartImage(sku),
                                sku.variantTextValue, OrEmpty(sku.articleNumber),
                                OrEmpty(DmartUrl(parent)))>>]

\* The exception a parent record raises outside the inner try, which ends the
\* outer loop: product_item.get on a value that is no dict, or the iteration
\* of an sKUs that is null.  "none" when the SKU loop is entered.
DmartParentExc(parent) ==
    IF parent.shape # "dict" THEN "AttributeError"
    ELSE IF parent.skusShape = "None" THEN "TypeError"
    ELSE "none"

DmartInit ==
    /\ d_pc = "call"
    /\ d_pincode \in {P500032, P400076, P110001}
    /\ d_body \in DmartBodies
    /\ d_results = <<>>
    /\ d_parent = NoParent
    /\ d_sku = NoSku
    /\ d_left = MaxRecords
    /\ d_before = <<>>

DmartIdle ==
    /\ d_pc = "off"
    /\ d_pincode = P500032
    /\ d_body = Body("network_error", "None", "MISSING", <<>>)
    /\ d_results = <<>>
    /\ d_parent = NoParent
    /\ d_sku = NoSku
    /\ d_left = 0
    /\ d_before = <<>>

\* Lines 53-72: the store lookup, the request and the decoding.  The call
\* returns dmart_results, still empty, unless the body holds a product list.
DmartCall ==
    /\ d_pc = "call"
    /\ d_pc' = IF DmartReachesLoop(d_pincode, d_body) THEN "parents" ELSE "done"
    /\ UNCHANGED <<d_pincode, d_body, d_results, d_parent, d_sku, d_left, d_before>>
    /\ UNCHANGED <<fvars, pvars, jvars, mvars, mapping_response_file>>

\* Lines 74-79: the next parent record.  One that raises ends the call with
\* the results so far.
DmartNextParent ==
    /\ d_pc = "parents"
    /\ d_left > 0
    /\ \E parent \in DmartParents :
          /\ d_parent' = parent
          /\ d_pc' = IF DmartParentExc(parent) # "none" THEN "done" ELSE "skus"
    /\ d_left' = d_left - 1
    /\ d_sku' = NoSku
    /\ d_before' = d_results
    /\ UNCHANGED <<d_pincode, d_body, d_results>>
    /\ UNCHANGED <<fvars, pvars, jvars, mvars, mapping_response_file>>

\* Lines 80-124: the next SKU of the current parent, when its sKUs is a list
\* that holds one more.
DmartNextSku ==
    /\ d_pc = "skus"
    /\ d_parent.skusShape = "list"
    /\ d_left > 0
    /\ \E sku \in DmartSkus :
          /\ d_sku' = sku
          /\ d_results' = d_results \o DmartSkuStep(d_parent, sku).product
    /\ d_before' = d_results
    /\ d_left' = d_left - 1
    /\ UNCHANGED <<d_pc, d_pincode, d_body, d_parent>>
    /\ UNCHANGED <<fvars, pvars, jvars, mvars, mapping_response_file>>

\* The SKU loop of the current parent is over.
DmartEndSkus ==
    /\ d_pc = "skus"
    /\ d_pc' = "parents"
    /\ UNCHANGED <<d_pincode, d_body, d_results, d_parent, d_sku, d_left, d_before>>
    /\ UNCHANGED <<fvars, pvars, jvars, mvars, mapping_response_file>>

\* Line 136: return dmart_results, once the product list is used up.
DmartReturn ==
    /\ d_pc = "parents"
    /\ d_pc' = "done"
    /\ UNCHANGED <<d_pincode, d_body, d_results, d_parent, d_sku, d_left, d_before>>
    /\ UNCHANGED <<fvars, pvars, jvars, mvars, mapping_response_file>>

DmartNext == DmartCall \/ DmartNextParent \/ DmartNextSku \/ DmartEndSkus \/ DmartReturn

-----------------------------------------------------------------------------
(* search_jiomart_products and get_jiomart_inventory_codes,                 *)
(* src/jiomart.py:31-275.  The hits loop takes one hit per step.            *)

MaxHits == 2

JIOMART_BASE_URL == "s:https://www.jiomart.com"

\* The value under "region_codes" or "store_codes": a JSON object, given by
\* the lists that are its values in their order, or a value of another shape.
Codes(shape, lists) == [shape |-> shape, lists |-> lists]

\* What the mapping request ends in; for a JSON object, its two collections.
Mapping(kind, shape, region, store) ==
    [kind |-> kind, shape |-> shape, region_codes |-> region, store_codes |-> store]

NoCodes == Codes("MISSING", <<>>)
NoMapping == Mapping("network_error", "None", NoCodes, NoCodes)

JioMappings ==
    { Mapping(k, "None", NoCodes, NoCodes) :
          k \in {"network_error", "http_404", "http_500", "not_json"} }
    \cup { Mapping("json", sh, NoCodes, NoCodes) : sh \in {"None", "list", "dict"} }
    \cup { Mapping("json", "dict", Codes("dict", <<<<"R1">>>>), NoCodes),
           Mapping("json", "dict", NoCodes, Codes("dict", <<<<"S1">>>>)),
           Mapping("json", "dict", Codes("None", <<>>), Codes("dict", <<<<"S1">>>>)),
           Mapping("json", "dict", Codes("dict", <<<<"R1">>>>), Codes("None", <<>>)) }
    \cup { Mapping("json", "dict", Codes("dict", r), Codes("dict", st)) :
              r \in {<<>>, <<<<"R1">>>>},
              st \in {<<>>, <<<<>>>>, <<<<"S1">>>>, <<<<"S1">>, <<"S2", "S1">>>>} }
    \cup { Mapping("json", "dict", Codes("dict", <<<<"R1">>, <<"R2", "R1">>>>),
                   Codes("dict", <<<<"S1">>>>)) }

\* get_jiomart_inventory_codes(pincode): the decoded body when it is a JSON
\* object with both keys, None otherwise (every exception is caught).
get_jiomart_inventory_codes(mapping) ==
    IF mapping.kind = "json" /\ mapping.shape = "dict"
       /\ mapping.region_codes.shape # "MISSING" /\ mapping.store_codes.shape # "MISSING"
    THEN mapping
    ELSE NoMapping

\* The file: whether it exists, and the JSON value it holds.
File(exists, data) == [exists |-> exists, data |-> data]
NoFile == File(FALSE, NoMapping)

\* Lines 57-61: a response that decodes as JSON is dumped to the file, before
\* its keys are looked at.
SaveMapping(file, mapping) == IF mapping.kind = "json" THEN File(TRUE, mapping) ELSE file

\* `not location_data`
NoLocation(location) == location = NoMapping

\* set(code for codes in d.values() for code in codes)
AllCodes(codes) == UNION {Range(codes.lists[i]) : i \in 1..Len(codes.lists)}

\* The exception the filter building (lines 116-142) raises, or "none":
\* .values() of a value that is no dict.
FiltersExc(location) ==
    IF location.region_codes.shape # "dict" \/ location.store_codes.shape # "dict"
    THEN "AttributeError" ELSE "none"

\* inventory_filter, lines 128-133
InventoryFilter(store_order) ==
    <<"(">> \o JoinOr(<<Clause("inventory_stores", "ALL"), Clause("inventory_stores_3p", "ALL")>>
                      \o [i \in 1..Len(store_order) |-> Clause("inventory_stores", store_order[i])]
                      \o [i \in 1..Len(store_order) |-> Clause("inventory_stores_3p", store_order[i])])
    \o <<")">>

\* final_filters, line 142
FinalFilters(region_order, store_order) ==
    <<"(mart_availability:JIO OR mart_availability:JIO_WA)", " AND ">>
    \o BuildFilter("available_stores", region_order, region_order)
    \o <<" AND ", "(NOT vertical_code:ALCOHOL) AND (NOT vertical_code:LOCALSHOPS)", " AND ">>
    \o InventoryFilter(store_order)

\* float(x) if x is not None else None
FloatOrNone(t) == IF t = None THEN [exc |-> "none", val |-> None] ELSE FloatOf(t)

\* A record of buybox_mrp: a JSON object with these keys, or null.
Info(shape, available, mrp, price) ==
    [shape |-> shape, available |-> available, mrp |-> mrp, price |-> price]

JioInfos ==
    { Info("dict", "b:true", "n:7", "n:7"),
      Info("dict", "b:true", None, "s:30"),
      Info("dict", "b:false", "n:7", "n:7"),
      Info("dict", "b:true", "n:7", None),
      Info("dict", "b:true", "n:7", "s:abc"),
      Info("dict", "n:7", "n:7", "s:12.50"),
      Info("None", None, None, None) }

\* buybox_mrp: a JSON object, given by its (key, record) entries in their
\* order, or missing, or null.
Buybox(shape, entries) == [shape |-> shape, entries |-> entries]
Entry(key, info) == [key |-> key, info |-> info]

JioBuyboxKeys == {<<"S1">>, <<"S2">>, <<"X9">>, <<"S1", "S2">>, <<"X9", "S1">>}

\* The records a buybox_mrp of `n` keys is filled with: every record for one
\* key, the records that are objects with parsable prices for more.
JioInfosFor(n) ==
    IF n = 1 THEN JioInfos
    ELSE {info \in JioInfos : info.shape = "dict" /\ FloatOrNone(info.price).exc = "none"}

JioBuyboxes ==
    { Buybox("MISSING", <<>>), Buybox("None", <<>>), Buybox("dict", <<>>) }
    \cup UNION { { Buybox("dict", [i \in 1..Len(ks) |-> Entry(ks[i], infos[i])]) :
                     infos \in [1..Len(ks) -> JioInfosFor(Len(ks))] } : ks \in JioBuyboxKeys }

\* A hit: a JSON object with these keys, or a value of another shape.
Hit(shape, display_name, buybox_mrp, url_path, image_path, product_code) ==
    [shape |-> shape, display_name |-> display_name, buybox_mrp |-> buybox_mrp,
     url_path |-> url_path, image_path |-> image_path, product_code |-> product_code]

NoHit == Hit("None", None, Buybox("MISSING", <<>>), None, None, None)
GoodBuybox == Buybox("dict", <<Entry("S1", Info("dict", "b:true", "n:7", "n:7"))>>)

JioHits ==
    { Hit("dict", n, bb, "s:/milk", "s:img", "s:B1") :
          n \in {"s:Milk", None}, bb \in JioBuyboxes }
    \cup { Hit("dict", "s:Milk", GoodBuybox, u, i, c) :
          u \in {"s:/milk", None}, i \in {"s:img", None}, c \in {"s:B1", None, "n:4901"} }
    \cup { Hit("s:abc", None, Buybox("MISSING", <<>>), None, None, None), NoHit }

\* The search-index response: the outcome of the request, the shape of the
\* decoded body, and whether it leads to a list of hits.
JioBodies ==
    { Body(k, "None", "MISSING", <<>>) : k \in {"network_error", "http_error", "not_json"} }
    \cup { Body("json", sh, "MISSING", <<>>) : sh \in {"None", "dict_empty", "list"} }
    \cup { Body("json", "dict", sh, <<>>) : sh \in {"MISSING", "None", "list"} }

\* Whether the code reaches `for hit in hits` with a list (lines 176-188).
JioReachesLoop(body) ==
    body.kind = "json" /\ body.shape = "dict" /\ body.array.shape = "list"

\* The record under `key`, when buybox_mrp has the key.
RECURSIVE Lookup(_, _)
Lookup(entries, key) ==
    IF Len(entries) = 0 THEN <<>>
    ELSE IF Head(entries).key = key THEN <<Head(entries).info>>
    ELSE Lookup(Tail(entries), key)

\* The records the first loop reads: those of the resolved store codes that
\* buybox_mrp has, in the order the set of codes is iterated.
RECURSIVE StoreInfos(_, _)
StoreInfos(store_order, entries) ==
    IF Len(store_order) = 0 THEN <<>>
    ELSE Lookup(entries, Head(store_order)) \o StoreInfos(Tail(store_order), entries)

\* The price loops' variables.
Scan(mrp_num, selling_price_num, found_price, exc) ==
    [mrp_num |-> mrp_num, selling_price_num |-> selling_price_num,
     found_price |-> found_price, exc |-> exc]

\* One of the two price loops (lines 202-213 and 218-228) over `infos`,
\* entered with the variables `acc`: a record that is available sets both
\* prices, and the loop breaks at the first one whose price is not None.
RECURSIVE ScanPrices(_, _)
ScanPrices(infos, acc) ==
    IF Len(infos) = 0 \/ acc.found_price \/ acc.exc # "none" THEN acc
    ELSE LET info == Head(infos)
         IN IF info.shape = "dict" /\ Truthy(info.available)
            THEN IF FloatOrNone(info.mrp).exc # "none"
                 THEN Scan(acc.mrp_num, acc.selling_price_num, FALSE, FloatOrNone(info.mrp).exc)
                 ELSE IF FloatOrNone(info.price).exc # "none"
                 THEN Scan(FloatOrNone(info.mrp).val, acc.selling_price_num, FALSE,
                           FloatOrNone(info.price).exc)
                 ELSE ScanPrices(Tail(infos),
                                 Scan(FloatOrNone(info.mrp).val, FloatOrNone(info.price).val,
                                      FloatOrNone(info.price).val # None, "none"))
            ELSE ScanPrices(Tail(infos), acc)

\* A faulty variant, for comparison: the resolved store codes are not looked at first.
HitPricesRawOrder(store_order, entries) ==
    ScanPrices([i \in 1..Len(entries) |-> entries[i].info], Scan(None, None, FALSE, "none"))

\* Lines 196-228: the prices of a hit whose buybox_mrp is a dict.
HitPrices(store_order, entries) ==
    LET first == ScanPrices(StoreInfos(store_order, entries), Scan(None, None, FALSE, "none"))
    IN IF first.exc = "none" /\ ~first.found_price
       THEN ScanPrices([i \in 1..Len(entries) |-> entries[i].info], first)
       ELSE first

\* str(x)
StrOf(t) == IF t = "n:4901" THEN "s:4901" ELSE t

JioProduct(hit, prices) ==
    Product(hit.display_name, prices.mrp_num, prices.selling_price_num,
            IF Truthy(hit.image_path)
            THEN "s:https://www.jiomart.com/images/product/original/img?im=Resize=(150,150)"
            ELSE None,
            None,
            IF Truthy(hit.product_code) THEN StrOf(hit.product_code) ELSE "s:",
            IF Truthy(hit.url_path) THEN "s:https://www.jiomart.com/milk" ELSE JIOMART_BASE_URL)

\* A faulty variant, for comparison: a hit with a name is emitted whether or not a price was found.
JioHitStepNameOnly(store_order, hit) ==
    IF hit.shape # "dict" THEN [kind |-> "abort", exc |-> "AttributeError", product |-> <<>>]
    ELSE IF hit.buybox_mrp.shape = "None"
    THEN [kind |-> "error", exc |-> "TypeError", product |-> <<>>]
    ELSE LET prices == HitPrices(store_order, hit.buybox_mrp.entries)
         IN IF prices.exc # "none"
            THEN [kind |-> "error", exc |-> prices.exc, product |-> <<>>]
            ELSE IF Truthy(hit.display_name)
            THEN [kind |-> "emit", exc |-> "none", product |-> <<JioProduct(hit, prices)>>]
            ELSE [kind |-> "skip", exc |-> "none", product |-> <<>>]

\* One round of `for hit in hits` (lines 190-262).  A hit that is no dict
\* raises in the try and again in the handler (hit.get('objectID')), which
\* ends the loop; any other exception skips the hit.
JioHitStep(store_order, hit) ==
    IF hit.shape # "dict" THEN [kind |-> "abort", exc |-> "AttributeError", product |-> <<>>]
    ELSE IF hit.buybox_mrp.shape = "None"
    THEN [kind |-> "error", exc |-> "TypeError", product |-> <<>>]
    ELSE LET prices == HitPrices(store_order, hit.buybox_mrp.entries)
         IN IF prices.exc # "none"
            THEN [kind |-> "error", exc |-> prices.exc, product |-> <<>>]
            ELSE IF Truthy(hit.display_name) /\ prices.selling_price_num # None
            THEN [kind |-> "emit", exc |-> "none", product |-> <<JioProduct(hit, prices)>>]
            ELSE [kind |-> "skip", exc |-> "none", product |-> <<>>]

Calls(m, q) == [mapping |-> m, query |-> q]

JioInit ==
    /\ j_pc = "mapping"
    /\ j_mapping \in JioMappings
    /\ j_location = NoMapping
    /\ j_region_order = <<>>
    /\ j_store_order = <<>>
    /\ j_filters = <<>>
    /\ j_body \in JioBodies
    /\ j_results = <<>>
    /\ j_hit = NoHit
    /\ j_left = MaxHits
    /\ j_before = <<>>
    /\ j_calls = Calls(0, 0)
    /\ mapping_response_file = NoFile

JioIdle ==
    /\ j_pc = "off"
    /\ j_mapping = NoMapping
    /\ j_location = NoMapping
    /\ j_region_order = <<>>
    /\ j_store_order = <<>>
    /\ j_filters = <<>>
    /\ j_body = Body("network_error", "None", "MISSING", <<>>)
    /\ j_results = <<>>
    /\ j_hit = NoHit
    /\ j_left = 0
    /\ j_before = <<>>
    /\ j_calls = Calls(0, 0)
    /\ mapping_response_file = NoFile

\* Lines 109-113: phase 1, the mapping request.
JioMapping ==
    /\ j_pc = "mapping"
    /\ j_location' = get_jiomart_inventory_codes(j_mapping)
    /\ mapping_response_file' = SaveMapping(mapping_response_file, j_mapping)
    /\ j_calls' = [j_calls EXCEPT !.mapping = @ + 1]
    /\ j_pc' = IF NoLocation(j_location') THEN "done" ELSE "filters"
    /\ UNCHANGED <<j_mapping, j_region_order, j_store_order, j_filters, j_body, j_results,
                   j_hit, j_left, j_before>>
    /\ UNCHANGED <<fvars, pvars, dvars, mvars>>

\* Lines 116-147: the two code sets and the filters; the call returns the
\* empty list when the building raises or either set is empty.
JioFilters ==
    /\ j_pc = "filters"
    /\ IF FiltersExc(j_location) # "none"
       THEN /\ j_pc' = "done"
            /\ UNCHANGED <<j_region_order, j_store_order, j_filters>>
       ELSE \E ro \in Orders(AllCodes(j_location.region_codes)),
               so \in Orders(AllCodes(j_location.store_codes)) :
               /\ j_region_order' = ro
               /\ j_store_order' = so
               /\ IF BuildFilter("available_stores", ro, ro) = <<>> \/ Len(so) = 0
                  THEN j_pc' = "done" /\ j_filters' = <<>>
                  ELSE j_pc' = "query" /\ j_filters' = FinalFilters(ro, so)
    /\ UNCHANGED <<j_mapping, j_location, j_body, j_results, j_hit, j_left, j_before, j_calls>>
    /\ UNCHANGED <<fvars, pvars, dvars, mvars, mapping_response_file>>

\* Lines 175-188: phase 2, the search-index request and the way to the hits.
JioQuery ==
    /\ j_pc = "query"
    /\ j_calls' = [j_calls EXCEPT !.query = @ + 1]
    /\ j_pc' = IF JioReachesLoop(j_body) THEN "hits" ELSE "done"
    /\ UNCHANGED <<j_mapping, j_location, j_region_order, j_store_order, j_filters, j_body,
                   j_results, j_hit, j_left, j_before>>
    /\ UNCHANGED <<fvars, pvars, dvars, mvars, mapping_response_file>>

\* Lines 190-262: the next hit.
JioNextHit ==
    /\ j_pc = "hits"
    /\ j_left > 0
    /\ \E hit \in JioHits :
          /\ j_hit' = hit
          /\ j_results' = j_results \o JioHitStep(j_store_order, hit).product
          /\ j_pc' = IF JioHitStep(j_store_order, hit).kind = "abort" THEN "done" ELSE "hits"
    /\ j_before' = j_results
    /\ j_left' = j_left - 1
    /\ UNCHANGED <<j_mapping, j_location, j_region_order, j_store_order, j_filters, j_body,
                   j_calls>>
    /\ UNCHANGED <<fvars, pvars, dvars, mvars, mapping_response_file>>

\* Line 275: return jiomart_results, once the hits are used up.
JioReturn ==
    /\ j_pc = "hits"
    /\ j_pc' = "done"
    /\ UNCHANGED <<j_mapping, j_location, j_region_order, j_store_order, j_filters, j_body,
                   j_results, j_hit, j_left, j_before, j_calls>>
    /\ UNCHANGED <<fvars, pvars, dvars, mvars, mapping_response_file>>

JioNext == JioMapping \/ JioFilters \/ JioQuery \/ JioNextHit \/ JioReturn

-----------------------------------------------------------------------------
(* The adapters as the endpoint calls them: one call, on a whole response.  *)

RECURSIVE DmartSkusOf(_, _)
DmartSkusOf(parent, skus) ==
    IF Len(skus) = 0 THEN <<>>
    ELSE DmartSkuStep(parent, Head(skus)).product \o DmartSkusOf(parent, Tail(skus))

\* The two loops of search_dmart_products over a product list.
RECURSIVE DmartProductsOf(_)
DmartProductsOf(parents) ==
    IF Len(parents) = 0 \/ DmartParentExc(Head(parents)) # "none" THEN <<>>
    ELSE (IF Head(parents).skusShape = "list"
          THEN DmartSkusOf(Head(parents), Head(parents).skus) ELSE <<>>)
         \o DmartProductsOf(Tail(parents))

\* search_dmart_products(query, pincode)
search_dmart_products(pin, body) ==
    IF DmartReachesLoop(pin, body) THEN Returned(DmartProductsOf(body.array.items))
    ELSE Returned(<<>>)

\* The hits loop of search_jiomart_products over a list of hits.
RECURSIVE JioProductsOf(_, _)
JioProductsOf(store_order, hits) ==
    IF Len(hits) = 0 \/ JioHitStep(store_order, Head(hits)).kind = "abort" THEN <<>>
    ELSE JioHitStep(store_order, Head(hits)).product \o JioProductsOf(store_order, Tail(hits))

\* Whether phase 2 of search_jiomart_products is reached: the mapping call
\* gave both collections and both code sets are non-empty.
JioResolved(mapping) ==
    LET location == get_jiomart_inventory_codes(mapping)
    IN /\ ~NoLocation(location)
       /\ FiltersExc(location) = "none"
       /\ AllCodes(location.region_codes) # {}
       /\ AllCodes(location.store_codes) # {}

\* search_jiomart_products(query, pincode), with the set of store codes
\* iterated in `store_order`.
search_jiomart_products(mapping, store_order, body) ==
    IF JioResolved(mapping) /\ JioReachesLoop(body)
    THEN Returned(JioProductsOf(store_order, body.array.items))
    ELSE Returned(<<>>)

-----------------------------------------------------------------------------
(* search_all_platforms, src/aggregator_api.py:230-306. *)

MAX_WORKERS == 4

\* The adapters in the order they are submitted and collected (lines 255-289).
Backends == <<"instamart", "zepto", "blinkit", "dmart", "jiomart">>
BackendSet == Range(Backends)

\* The key of the results dict an adapter's list goes under.
KeyOf(b) ==
    CASE b = "instamart" -> "instamart_products"
      [] b = "zepto"     -> "zepto_products"
      [] b = "blinkit"   -> "blinkit_products"
      [] b = "dmart"     -> "dmart_products"
      [] b = "jiomart"   -> "jiomart_products"
Keys == {KeyOf(b) : b \in BackendSet}

\* request.args.get(name): the argument, or None when it is not given.
Arg(chars) == [given |-> TRUE, s |-> chars]
NoArg == [given |-> FALSE, s |-> <<>>]

Queries == {NoArg, Arg(<<>>), Arg(<<"m", "i", "l", "k">>)}
Pincodes ==
    {NoArg, Arg(<<>>), Arg(P500032), Arg(P400076), Arg(PArabic),
     Arg(<<"5", "0", "0", "0", "3">>), Arg(<<"a", "b", "c", "d", "e", "f">>),
     Arg(<<"5", "0", "0", "0", "3", "2", "0">>)}

\* Lines 240-243: the two tests that answer 400.
\*   if not query or not pincode
\*   if not pincode.isdigit() or len(pincode) != 6
Rejected(q, pin) ==
    \/ ~q.given \/ Len(q.s) = 0 \/ ~pin.given \/ Len(pin.s) = 0
    \/ ~IsDigit(pin.s) \/ Len(pin.s) # 6

\* What the upstream services answer one adapter: the mapping response (read
\* by JioMart alone) and the body of the search response.
Upstream(mapping, body) == [mapping |-> mapping, body |-> body]
NoBody == Body("network_error", "None", "MISSING", <<>>)
ListBody(items) == Body("json", "dict", "list", items)
GoodMapping == Mapping("json", "dict", Codes("dict", <<<<"R1">>>>), Codes("dict", <<<<"S1">>>>))

UpstreamsOf(b) ==
    IF b \in ProxyBackends
    THEN { Upstream(NoMapping, body) :
             body \in { NoBody, Body("json", "list", "MISSING", <<>>), ListBody(<<>>),
                        ListBody(<<GoodItem>>),
                        ListBody(<<GoodItem, Item("dict", "s:abc", "n:7", "s:B1", "s:/milk")>>),
                        ListBody(<<Item("dict", "n:7", "n:7", None, MISSING)>>) } }
    ELSE IF b = "dmart"
    THEN { Upstream(NoMapping, body) :
             body \in { NoBody, ListBody(<<>>),
                        ListBody(<<Parent("dict", "s:Milk", "s:/milk", "list", <<GoodSku>>)>>),
                        ListBody(<<Parent("s:abc", None, None, "MISSING", <<>>),
                                   Parent("dict", "s:Milk", "s:/milk", "list", <<GoodSku>>)>>),
                        ListBody(<<Parent("dict", "s:Milk", None, "list",
                                          <<Sku("dict", "s:true", "s:A", "s:12.50", "s:30",
                                                None, "s:img", "s:img", None)>>)>>) } }
    ELSE { Upstream(NoMapping, NoBody), Upstream(GoodMapping, NoBody),
           Upstream(Mapping("json", "dict", Codes("dict", <<<<"R1">>>>), Codes("dict", <<>>)),
                    ListBody(<<Hit("dict", "s:Milk", GoodBuybox, "s:/milk", "s:img", "s:B1")>>)),
           Upstream(GoodMapping,
                    ListBody(<<Hit("dict", "s:Milk", GoodBuybox, "s:/milk", "s:img", "s:B1")>>)),
           Upstream(GoodMapping,
                    ListBody(<<Hit("dict", "s:Milk", GoodBuybox, None, "s:img", None)>>)) }

\* Whether the adapter call makes its search request: the proxies' helper
\* past line 148, DMart past line 57, JioMart past line 147.
SearchRequested(b, pin, up) ==
    IF b \in ProxyBackends THEN call_9minutes_api(pin, up.body).called
    ELSE IF b = "dmart" THEN Truthy(get_dmart_store_id(pin))
    ELSE JioResolved(up.mapping)

\* The adapter function of a backend, called with the pincode of the request.
RunAdapter(b, pin, up, store_order) ==
    IF b \in ProxyBackends THEN search_9minutes_products(pin, up.body)
    ELSE IF b = "dmart" THEN search_dmart_products(pin, up.body)
    ELSE search_jiomart_products(up.mapping, store_order, up.body)

\* A future: unsubmitted, queued, running, returned or raised; how often it was
\* submitted; and, once its call has run, what the upstream answered, whether
\* the search request was made, and what the call ended in.
Future(state, submits, up, called, out) ==
    [state |-> state, submits |-> submits, upstream |-> up, called |-> called, out |-> out]
NoUpstream == Upstream(NoMapping, NoBody)
NewFuture == Future("unsubmitted", 0, NoUpstream, FALSE, Returned(<<>>))

Finished(f) == f.state \in {"returned", "raised"}
Running == {b \in BackendSet : futures[b].state = "running"}

\* A faulty variant, for comparison: future.result() outside a try, so that a task's exception
\* leaves search_all_platforms.
FutureResultUncaught(f) ==
    [escapes |-> f.out.raised, value |-> f.out.value]

\* try: results[key] = future.result() / except Exception: results[key] = []
FutureResult(f) ==
    [escapes |-> FALSE, value |-> IF f.out.raised THEN <<>> ELSE f.out.value]

\* A faulty variant, for comparison: a task that raised is submitted once more.
FutureRetried(f) ==
    IF f.state = "raised" THEN [f EXCEPT !.state = "queued", !.submits = @ + 1] ELSE f

\* The future after its result was read: nothing resubmits it.
FutureAfterResult(f) == f

\* An entry of the results dict: how often the key was assigned, and its value.
Slot(assigned, value) == [assigned |-> assigned, value |-> value]

\* The response: the status and, for 200, final_response (lines 295-301).
Response(status, body) == [status |-> status, body |-> body]
NoResponse == Response(0, [k \in {} |-> <<>>])
ErrorBody == [k \in {"error"} |-> <<>>]

Init ==
    /\ pc = "request"
    /\ query \in Queries
    /\ pincode \in Pincodes
    /\ next = 1
    /\ futures = [b \in BackendSet |-> NewFuture]
    /\ results = [k \in Keys |-> Slot(0, <<>>)]
    /\ response = NoResponse
    /\ FilterIdle /\ ProxyIdle /\ DmartIdle /\ JioIdle

\* Lines 236-243: the input validation.
Validate ==
    /\ pc = "request"
    /\ IF Rejected(query, pincode)
       THEN /\ pc' = "done"
            /\ response' = Response(400, ErrorBody)
       ELSE /\ pc' = "submit"
            /\ UNCHANGED response
    /\ UNCHANGED <<query, pincode, next, futures, results>>
    /\ UNCHANGED <<fvars, pvars, dvars, jvars, mapping_response_file>>

\* Lines 255-259: executor.submit of the next adapter.
Submit ==
    /\ pc = "submit"
    /\ futures' = [futures EXCEPT ![Backends[next]] =
                      [@ EXCEPT !.state = "queued", !.submits = @ + 1]]
    /\ IF next = Len(Backends)
       THEN pc' = "collect" /\ next' = 1
       ELSE pc' = "submit" /\ next' = next + 1
    /\ UNCHANGED <<query, pincode, results, response>>
    /\ UNCHANGED <<fvars, pvars, dvars, jvars, mapping_response_file>>

\* A worker thread of the pool takes the oldest queued task; no more than
\* MAX_WORKERS tasks run at a time.
StartTask(b) ==
    /\ futures[b].state = "queued"
    /\ Cardinality(Running) < MAX_WORKERS
    /\ \A i \in 1..Len(Backends) :
          futures[Backends[i]].state = "queued" =>
             \E j \in 1..i : Backends[j] = b \/ futures[Backends[i]].state # "queued"
    /\ \A i, j \in 1..Len(Backends) :
          (Backends[j] = b /\ i < j) => futures[Backends[i]].state # "queued"
    /\ futures' = [futures EXCEPT ![b].state = "running"]
    /\ UNCHANGED <<pc, query, pincode, next, results, response>>
    /\ UNCHANGED <<fvars, pvars, dvars, jvars, mapping_response_file>>

\* The adapter call of a running task, from its first line to its return or
\* to the exception that leaves it.
FinishTask(b) ==
    /\ futures[b].state = "running"
    /\ \E up \in UpstreamsOf(b) :
       \E store_order \in Orders(AllCodes(up.mapping.store_codes)) :
          LET out == RunAdapter(b, pincode.s, up, store_order)
          IN /\ futures' = [futures EXCEPT ![b] =
                 Future(IF out.raised THEN "raised" ELSE "returned", @.submits, up,
                        SearchRequested(b, pincode.s, up), out)]
             /\ mapping_response_file' =
                    IF b = "jiomart" THEN SaveMapping(mapping_response_file, up.mapping)
                    ELSE mapping_response_file
    /\ UNCHANGED <<pc, query, pincode, next, results, response>>
    /\ UNCHANGED <<fvars, pvars, dvars, jvars>>

\* Lines 264-289: future.result() of the next adapter, which waits for the
\* task, and the assignment of its key.
Collect ==
    /\ pc = "collect"
    /\ LET b == Backends[next]
           got == FutureResult(futures[b])
       IN /\ Finished(futures[b])
          /\ IF got.escapes
             THEN /\ pc' = "unwind"
                  /\ UNCHANGED <<next, results>>
             ELSE /\ results' = [results EXCEPT ![KeyOf(b)] = Slot(@.assigned + 1, got.value)]
                  /\ IF next = Len(Backends)
                     THEN pc' = "respond" /\ next' = 1
                     ELSE pc' = "collect" /\ next' = next + 1
          /\ futures' = [futures EXCEPT ![b] = FutureAfterResult(@)]
    /\ UNCHANGED <<query, pincode, response>>
    /\ UNCHANGED <<fvars, pvars, dvars, jvars, mapping_response_file>>

\* Lines 252 and 295-306: the with block ends once every task of the pool has
\* finished; then final_response is built and returned.  An exception that
\* left the with block is answered 500 by Flask.
Respond ==
    /\ pc \in {"respond", "unwind"}
    /\ \A b \in BackendSet : futures[b].state = "unsubmitted" \/ Finished(futures[b])
    /\ response' = IF pc = "unwind" THEN Response(500, ErrorBody)
                   ELSE Response(200, [k \in Keys |-> results[k].value])
    /\ pc' = "done"
    /\ UNCHANGED <<query, pincode, next, futures, results>>
    /\ UNCHANGED <<fvars, pvars, dvars, jvars, mapping_response_file>>

Next ==
    \/ Validate
    \/ Submit
    \/ \E b \in BackendSet : StartTask(b)
    \/ \E b \in BackendSet : FinishTask(b)
    \/ Collect
    \/ Respond

MainIdle ==
    /\ pc = "off"
    /\ query = NoArg
    /\ pincode = NoArg
    /\ next = 1
    /\ futures = [b \in BackendSet |-> NewFuture]
    /\ results = [k \in Keys |-> Slot(0, <<>>)]
    /\ response = NoResponse

Spec == Init /\ [][Next]_vars

\* The scheduling the liveness of a request rests on: the request thread and
\* the pool's workers keep running, and every adapter call comes to an end.
FairSpec ==
    /\ Spec
    /\ WF_vars(Validate) /\ WF_vars(Submit) /\ WF_vars(Collect) /\ WF_vars(Respond)
    /\ \A b \in BackendSet : WF_vars(StartTask(b)) /\ WF_vars(FinishTask(b))

-----------------------------------------------------------------------------
(* Specifications of one call of a function each. *)

InitFilter == FilterInit /\ ProxyIdle /\ DmartIdle /\ JioIdle /\ MainIdle
InitProxy == ProxyInit /\ FilterIdle /\ DmartIdle /\ JioIdle /\ MainIdle
InitDmart == DmartInit /\ FilterIdle /\ ProxyIdle /\ JioIdle /\ MainIdle
InitJio == JioInit /\ FilterIdle /\ ProxyIdle /\ DmartIdle /\ MainIdle

SpecFilter == InitFilter /\ [][FilterNext]_vars
SpecProxy == InitProxy /\ [][ProxyNext]_vars
SpecDmart == InitDmart /\ [][DmartNext]_vars
SpecJio == InitJio /\ [][JioNext]_vars

-----------------------------------------------------------------------------
(* The claims about search_all_platforms. *)

Answered == pc = "done"
Accepted == ~Rejected(query, pincode)
IsList(v) == DOMAIN v = 1..Len(v)

\* C1: every request that passes the input validation is answered 200 with
\* a body whose keys are exactly the five backend keys, each value a list,
\* whatever the adapters' tasks end in.
C1_AggregateShape ==
    (Answered /\ Accepted) =>
        /\ response.status = 200
        /\ DOMAIN response.body = Keys
        /\ \A k \in Keys : IsList(response.body[k])

\* A request answered while one task raised, one returned products and one
\* returned nothing after a failed request.
C1_Witness ==
    /\ Answered /\ response.status = 200
    /\ futures["instamart"].state = "raised"
    /\ Len(futures["dmart"].out.value) > 0
    /\ futures["jiomart"].upstream.body = NoBody

\* C2: no adapter call ever raises to its caller.
C2_AdaptersNeverRaise ==
    \A b \in BackendSet : futures[b].state # "raised"

\* The location resolution of a backend misses: the lookup returns None, or
\* get_jiomart_inventory_codes fails.
Misses(b, pin, up) ==
    IF b \in ProxyBackends THEN get_9minutes_location_string(pin) = None
    ELSE IF b = "dmart" THEN get_dmart_store_id(pin) = None
    ELSE NoLocation(get_jiomart_inventory_codes(up.mapping))

\* The location resolution of a backend gives what its search request needs:
\* a location string, a store id, or two non-empty sets of codes.
Resolves(b, pin, up) ==
    IF b \in ProxyBackends THEN pin = P500032
    ELSE IF b = "dmart" THEN pin \in {P500032, P500049, P400076}
    ELSE /\ up.mapping.kind = "json" /\ up.mapping.shape = "dict"
         /\ up.mapping.region_codes.shape = "dict" /\ up.mapping.store_codes.shape = "dict"
         /\ AllCodes(up.mapping.region_codes) # {} /\ AllCodes(up.mapping.store_codes) # {}

\* C3: when a backend's location resolution misses, its array is empty; and
\* every backend's array is what its own adapter call ended in, with its
\* search request made exactly when its own resolution succeeded, whatever
\* the other backends' resolutions did.
C3_MissIsolated ==
    (Answered /\ Accepted) =>
        \A b \in BackendSet :
            LET f == futures[b]
            IN /\ Misses(b, pincode.s, f.upstream) =>
                     (response.body[KeyOf(b)] = <<>> /\ ~f.called)
               /\ response.body[KeyOf(b)] = (IF f.out.raised THEN <<>> ELSE f.out.value)
               /\ f.called = Resolves(b, pincode.s, f.upstream)

\* The 9minutes lookup misses for 400076 while DMart's finds a store: the
\* proxy's array is empty although its upstream had an item, DMart's is not.
C3_Witness ==
    /\ Answered /\ response.status = 200
    /\ pincode.s = P400076
    /\ futures["instamart"].upstream.body = ListBody(<<GoodItem>>)
    /\ response.body["instamart_products"] = <<>>
    /\ Len(response.body["dmart_products"]) > 0
    /\ futures["jiomart"].upstream.mapping = NoMapping
    /\ futures["dmart"].called

\* A non-empty query and a pincode of exactly six ASCII digits.
WellFormedRequest ==
    /\ query.given /\ Len(query.s) > 0
    /\ pincode.given /\ Len(pincode.s) = 6
    /\ \A i \in 1..Len(pincode.s) : pincode.s[i] \in AsciiDigits

\* C4: a request is answered 400, with no task submitted, exactly when the
\* query is missing or empty or the pincode is not six ASCII digits.
C4_Validation ==
    pc # "request" =>
        ((response.status = 400 /\ \A b \in BackendSet : futures[b].submits = 0)
            <=> ~WellFormedRequest)

\* C9: in every array of the aggregate result, barcode and deeplink of every
\* product are strings, never null.
C9_BarcodeDeeplinkStrings ==
    (Answered /\ response.status = 200) =>
        \A k \in Keys : \A i \in 1..Len(response.body[k]) :
            IsStr(response.body[k][i].barcode) /\ IsStr(response.body[k][i].deeplink)

\* No adapter is submitted twice, no key is assigned twice, and a response
\* is there only once all five tasks were submitted once, have finished and
\* have had their key assigned once.
C10_Once ==
    /\ \A b \in BackendSet : futures[b].submits <= 1
    /\ \A k \in Keys : results[k].assigned <= 1
    /\ response.status = 200 =>
          \A b \in BackendSet :
              /\ futures[b].submits = 1
              /\ Finished(futures[b])
              /\ results[KeyOf(b)].assigned = 1

\* C10: each adapter is submitted exactly once and never again after a
\* failure, each key is assigned exactly once, the response comes only after
\* all five tasks have finished, and, every task coming to an end, it comes.
C10_Orchestration == [] C10_Once /\ (pc = "submit" ~> Answered)

\* A request answered although a task raised.
C10_Witness ==
    /\ Answered /\ response.status = 200
    /\ futures["zepto"].state = "raised"
    /\ futures["zepto"].submits = 1

-----------------------------------------------------------------------------
(* The claims about the adapters. *)

\* An item the coercion loop has nothing against.
WellFormedItem(item) == CoerceExc(item) = "none"

\* C5: a malformed item of the upstream list is skipped alone; every
\* well-formed item before and after it is emitted, in the upstream order.
C5_OnlyBadItemSkipped ==
    (p_pc = "done" /\ Truthy(get_9minutes_location_string(p_pincode))
        /\ p_body.kind = "json" /\ p_body.shape = "dict" /\ p_body.array.shape = "list") =>
        LET good == SelectSeq(p_body.array.items, WellFormedItem)
        IN p_out = Returned([i \in 1..Len(good) |-> Coerced(good[i])])

\* No available price record: buybox_mrp is absent, empty, or holds no record
\* whose available flag is true.
NoAvailableRecord(bb) ==
    /\ bb.shape \in {"MISSING", "dict"}
    /\ \A i \in 1..Len(bb.entries) :
          ~(bb.entries[i].info.shape = "dict" /\ Truthy(bb.entries[i].info.available))

JioHitTaken == j_pc \in {"hits", "done"} /\ j_hit.shape = "dict"

\* C6 as claimed: a hit without display_name is never emitted, and one
\* with a display_name but no available price record is emitted with
\* selling_price null.
C6_EmittedWithNullPrice ==
    JioHitTaken =>
        /\ ~Truthy(j_hit.display_name) => j_results = j_before
        /\ (Truthy(j_hit.display_name) /\ NoAvailableRecord(j_hit.buybox_mrp)) =>
              /\ Len(j_results) = Len(j_before) + 1
              /\ j_results[Len(j_results)].selling_price = None

\* C6: a hit without display_name is never emitted, and neither is one with
\* a display_name but no available price record; no emitted product has a
\* null selling_price.
C6_SkippedWithoutPrice ==
    /\ JioHitTaken =>
        /\ ~Truthy(j_hit.display_name) => j_results = j_before
        /\ (Truthy(j_hit.display_name) /\ NoAvailableRecord(j_hit.buybox_mrp)) =>
              j_results = j_before
    /\ \A i \in 1..Len(j_results) : j_results[i].selling_price # None

\* A hit with a name whose only price record is not available, skipped after
\* a hit that was emitted.
C6_Witness ==
    /\ JioHitTaken
    /\ j_hit.display_name = "s:Milk"
    /\ j_hit.buybox_mrp = Buybox("dict", <<Entry("S1", Info("dict", "b:false", "n:7", "n:7"))>>)
    /\ j_results = j_before
    /\ Len(j_results) = 1

\* A price field that is present and parses as a number.
PresentAndNumeric(t) == t \notin {None, MISSING} /\ FloatOf(t).exc = "none"

\* A price field that is truthy (not missing, null, empty or a numeric zero)
\* and parses as a number.
TruthyAndNumeric(t) == Truthy(t) /\ FloatOf(t).exc = "none"

\* The last SKU was emitted, or was not, and the SKUs before it are untouched.
SkuEmitted == Len(d_results) = Len(d_before) + 1 /\ SubSeq(d_results, 1, Len(d_before)) = d_before
SkuNotEmitted == d_results = d_before

RECURSIVE SplitOr(_, _)
SplitOr(s, cur) ==
    IF Len(s) = 0 THEN <<cur>>
    ELSE IF Head(s) = " OR " THEN <<cur>> \o SplitOr(Tail(s), <<>>)
    ELSE SplitOr(Tail(s), Append(cur, Head(s)))

ClausesOf(str) == SplitOr(SubSeq(str, 2, Len(str) - 1), <<>>)

\* C8: build_algolia_or_filter gives "" for no values, and otherwise
\* "(" ... ")" holding exactly one clause key:v for each distinct value v,
\* joined by " OR ", no clause twice.
C8_FilterClauses ==
    f_pc = "returned" =>
        IF Len(f_values) = 0 THEN f_result = <<>>
        ELSE /\ Len(f_result) >= 2
             /\ Head(f_result) = "(" /\ f_result[Len(f_result)] = ")"
             /\ LET cs == ClausesOf(f_result)
                IN /\ Range(cs) = {Clause(f_key, v) : v \in Range(f_values)}
                   /\ Len(cs) = Cardinality(Range(f_values))

\* A call with a repeated value, as in the spec's example a, a, b.
C8_Witness ==
    /\ f_pc = "returned"
    /\ f_values = <<"a", "a", "b">>
    /\ Len(ClausesOf(f_result)) = 2

-----------------------------------------------------------------------------
(* The claim about the worker pool of search_all_platforms. *)

\* A submitted task that has not started while every worker of the pool is
\* running another adapter's task: it starts only when one of them finishes.
Waits(b) == futures[b].state = "queued" /\ Cardinality(Running) = MAX_WORKERS

\* C11: the pool has a worker for every adapter task, so that no submitted
\* task has to wait for another adapter's task to finish before it starts.
C11_AllParallel == \A b \in BackendSet : ~Waits(b)

-----------------------------------------------------------------------------
(* The claim about the two phases of search_jiomart_products. *)

\* The codes a collection of the mapping response yields: none when the
\* collection is missing or is no JSON object.
CodesOf(codes) == IF codes.shape = "dict" THEN AllCodes(codes) ELSE {}

\* The mapping request was answered 2xx with a JSON object whose region_codes
\* and store_codes both yield at least one code.
MappingUsable ==
    /\ j_mapping.kind = "json" /\ j_mapping.shape = "dict"
    /\ j_mapping.region_codes.shape # "MISSING" /\ j_mapping.store_codes.shape # "MISSING"
    /\ CodesOf(j_mapping.region_codes) # {} /\ CodesOf(j_mapping.store_codes) # {}

\* C12: at most one mapping request and one search-index request are made in
\* a call; the search-index request is made only after a mapping request
\* that gave two non-empty code sets; and a call whose mapping request failed
\* or gave an empty code set returns the empty list without that request.
C12_AllOrNothing ==
    /\ j_calls.mapping <= 1 /\ j_calls.query <= 1
    /\ j_calls.query = 1 => (j_calls.mapping = 1 /\ MappingUsable)
    /\ (j_pc = "done" /\ ~MappingUsable) => (j_results = <<>> /\ j_calls.query = 0)

\* A call that ended after the mapping request alone, because the mapping
\* gave region codes and no store code.
C12_Witness ==
    /\ j_pc = "done"
    /\ j_calls = Calls(1, 0)
    /\ j_mapping.kind = "json" /\ j_mapping.shape = "dict"
    /\ CodesOf(j_mapping.region_codes) # {} /\ j_mapping.store_codes.shape = "dict"
    /\ CodesOf(j_mapping.store_codes) = {}
    /\ j_results = <<>>

-----------------------------------------------------------------------------
(* The claim about the price a JioMart hit is emitted with. *)

JioEmitted == JioHitTaken /\ Len(j_results) = Len(j_before) + 1

\* The first of `infos` that Ok holds of, if there is one.
FirstOk(infos, Ok(_)) ==
    LET I == {i \in 1..Len(infos) : Ok(infos[i])}
    IN IF I = {} THEN <<>> ELSE <<infos[CHOOSE i \in I : \A k \in I : i <= k]>>

\* The record of the first resolved store code, in the order the codes are
\* iterated in, whose record in buybox_mrp is Ok; failing that, the first
\* record of buybox_mrp, in its own order, that is Ok.
PriceSource(store_order, entries, Ok(_)) ==
    LET stores == {i \in 1..Len(store_order) :
                      \E k \in 1..Len(entries) :
                         entries[k].key = store_order[i] /\ Ok(entries[k].info)}
        first == CHOOSE i \in stores : \A k \in stores : i <= k
    IN IF stores # {}
       THEN <<(CHOOSE e \in Range(entries) : e.key = store_order[first]).info>>
       ELSE FirstOk([i \in 1..Len(entries) |-> entries[i].info], Ok)

AvailableTrue(info) == info.shape = "dict" /\ info.available = "b:true"
AvailablePriced(info) ==
    info.shape = "dict" /\ Truthy(info.available) /\ info.price # None

\* C13 as claimed: the selling price of an emitted hit is that of the first
\* resolved store code whose record has available = true, and, when there is
\* no such store code, that of the first record with available = true.
C13_FirstAvailable ==
    JioEmitted =>
        LET source == PriceSource(j_store_order, j_hit.buybox_mrp.entries, AvailableTrue)
        IN /\ source # <<>>
           /\ j_results[Len(j_results)].selling_price = FloatOrNone(source[1].price).val

\* C13: the prices of an emitted hit are those of the first resolved store
\* code whose record has a truthy available flag and a price that is not
\* null, and, when there is no such store code, those of the first such
\* record of buybox_mrp; a record whose flag is falsy or whose price is null
\* is never the source.
C13_FirstPriced ==
    JioEmitted =>
        LET source == PriceSource(j_store_order, j_hit.buybox_mrp.entries, AvailablePriced)
        IN /\ source # <<>>
           /\ j_results[Len(j_results)].selling_price = FloatOrNone(source[1].price).val
           /\ j_results[Len(j_results)].mrp = FloatOrNone(source[1].mrp).val

\* A hit emitted with the price of a resolved store code whose record comes
\* second in buybox_mrp, after another available record.
C13_Witness ==
    /\ JioEmitted
    /\ j_store_order = <<"S1">>
    /\ j_hit.buybox_mrp.entries =
          <<Entry("X9", Info("dict", "b:true", "n:7", "n:7")),
            Entry("S1", Info("dict", "b:true", None, "s:30"))>>
    /\ j_results[Len(j_results)].selling_price = "f:30.0"

-----------------------------------------------------------------------------
(* The claim about the order the resolved store codes are iterated in. *)

\* C15: what a hit is emitted as does not depend on the order in which the
\* set of resolved store codes is iterated.
C15_OrderIndependent ==
    JioHitTaken =>
        \A order \in Orders(Range(j_store_order)) :
            JioHitStep(order, j_hit) = JioHitStep(j_store_order, j_hit)

-----------------------------------------------------------------------------
(* The claim about the state the adapter tasks share. *)

\* C14: nothing is written on behalf of an adapter task but its own entry of
\* the results dict of its request; in particular the mapping a JioMart call
\* obtained is kept nowhere that another task or a later call can see, so
\* the file of the process's working directory is never written.
C14_NoSharedState ==
    \A b \in BackendSet :
        Finished(futures[b]) => mapping_response_file = NoFile

====
